---- MODULE Spec2Model ----
(***************************************************************************)
(* SmartFolio: the portfolio analysis request handler (POST                *)
(* /api/analyzePortfolio), the market-data alignment of lib/yahoo.ts and   *)
(* the numeric functions of lib/finance.ts.                                *)
(*                                                                         *)
(* Numbers.  A JavaScript number is modelled by an exact rational <<n, d>> *)
(* in lowest terms with d > 0; <<1,0>>, <<-1,0>> and <<0,0>> stand for     *)
(* Infinity, -Infinity and NaN.  Math.sqrt is modelled exactly by a surd   *)
(* [c, r] standing for c * sqrt(r).  Math.log and Math.exp are modelled by *)
(* the piecewise-linear functions that are exact on the powers of two when *)
(* ln 2 is taken as LN2 (so that Exp(Ln(x)) = x).                          *)
(***************************************************************************)
EXTENDS Integers, Sequences, FiniteSets, TLC

VARIABLES
    pc,         \* POST: where the request is ("idle", the awaits, "done")
    body,       \* POST: the request body
    parsedHoldings, \* POST: the holdings parsed from the text
    fetches,    \* fetchAllHistoricalPrices: the per-ticker promises
    errors,     \* fetchAllHistoricalPrices: errors, in completion order
    work,       \* POST: the working data of the request
    response,   \* POST: the response returned
    log,        \* POST: the steps performed and the collaborators called
    fn,         \* pure-function harness: the function applied ("none" before)
    args,       \* pure-function harness: its arguments
    out,        \* pure-function harness: its result
    parked,     \* a second request in the same process, suspended at an await
    page        \* app/page.tsx: the state of Home and its requests in flight

fvars == <<fn, args, out>>

hvars == <<pc, body, parsedHoldings, fetches, errors, work, response, log>>

ovars == <<parked, page>>

\* ------------------------------------------------------------------
\* Bounds of the model
\* ------------------------------------------------------------------
MaxDate == 3
MaxPoints == 2
ExtraDays == 1
MaxLen == 2
MaxAssets == 3
WeightGrid == 6
MaxValues == 3
MaxLines == 3

\* ------------------------------------------------------------------
\* Generic helpers
\* ------------------------------------------------------------------
Null == <<>>

Some(x) == <<x>>

Abs(x) == IF x < 0 THEN -x ELSE x

Sign(x) == IF x < 0 THEN -1 ELSE IF x > 0 THEN 1 ELSE 0

RECURSIVE GCD(_, _)
GCD(a, b) == IF b = 0 THEN a ELSE GCD(b, a % b)

Range(s) == {s[i] : i \in 1..Len(s)}

\* all sequences over S of length at most n
SeqsUpTo(S, n) == UNION {[1..k -> S] : k \in 0..n}

\* ------------------------------------------------------------------
\* JavaScript numbers as exact rationals
\* ------------------------------------------------------------------
Norm(n, d) ==
    IF d = 0 THEN <<Sign(n), 0>>
    ELSE LET g == GCD(Abs(n), Abs(d))
             s == IF d < 0 THEN -1 ELSE 1
         IN <<s * (n \div g), s * (d \div g)>>

NaN == <<0, 0>>
Infinity == <<1, 0>>
Zero == <<0, 1>>
One == <<1, 1>>
Q(n) == <<n, 1>>

IsNaN(a) == a = NaN
IsFinite(a) == a[2] # 0

RNeg(a) == <<-a[1], a[2]>>

RAdd(a, b) ==
    IF IsFinite(a) /\ IsFinite(b)
    THEN LET g == GCD(a[2], b[2])
         IN Norm(a[1] * (b[2] \div g) + b[1] * (a[2] \div g), (a[2] \div g) * b[2])
    ELSE IF IsNaN(a) \/ IsNaN(b) THEN NaN
    ELSE IF ~IsFinite(a) /\ ~IsFinite(b) THEN (IF a = b THEN a ELSE NaN)
    ELSE IF ~IsFinite(a) THEN a ELSE b

RSub(a, b) == RAdd(a, RNeg(b))

RMul(a, b) ==
    IF IsFinite(a) /\ IsFinite(b)
    THEN LET g1 == GCD(Abs(a[1]), b[2])
             g2 == GCD(Abs(b[1]), a[2])
         IN Norm((a[1] \div g1) * (b[1] \div g2), (a[2] \div g2) * (b[2] \div g1))
    ELSE <<Sign(a[1]) * Sign(b[1]), 0>>

RInv(a) ==
    IF a[1] = 0 THEN (IF IsNaN(a) THEN NaN ELSE Infinity)
    ELSE IF a[1] > 0 THEN <<a[2], a[1]>> ELSE <<-a[2], -a[1]>>

RDiv(a, b) == RMul(a, RInv(b))

RLt(a, b) == ~IsNaN(a) /\ ~IsNaN(b) /\ a # b /\ RSub(b, a)[1] > 0
RLe(a, b) == ~IsNaN(a) /\ ~IsNaN(b) /\ (a = b \/ RLt(a, b))
RGt(a, b) == RLt(b, a)
RGe(a, b) == RLe(b, a)

RAbs(a) == <<Abs(a[1]), a[2]>>

\* x || 0 : 0 and NaN are falsy
OrZero(a) == IF a = Zero \/ IsNaN(a) THEN Zero ELSE a

RECURSIVE RSum(_)
RSum(s) == IF s = <<>> THEN Zero ELSE RAdd(RSum(SubSeq(s, 1, Len(s) - 1)), s[Len(s)])

\* ------------------------------------------------------------------
\* lib/yahoo.ts : alignPriceData
\* A pricesMap (a JavaScript Map, ordered by insertion) is a sequence of
\* entries [ticker, data]; data is a sequence of points [date, adjClose].
\* ------------------------------------------------------------------
MapHas(m, k) == \E i \in 1..Len(m) : m[i].ticker = k

MapGet(m, k) == m[CHOOSE i \in 1..Len(m) : m[i].ticker = k]

MapKeys(m) == [i \in 1..Len(m) |-> m[i].ticker]

\* dateMap.set(point.date.getTime(), point.adjClose) over data: last one wins
DateMapOf(data) ==
    [d \in {data[i].date : i \in 1..Len(data)} |->
        data[CHOOSE i \in 1..Len(data) :
                /\ data[i].date = d
                /\ \A j \in (i + 1)..Len(data) : data[j].date # d].adjClose]

RECURSIVE Insert(_, _)
Insert(x, s) ==
    IF s = <<>> THEN <<x>>
    ELSE IF x < s[1] THEN <<x>> \o s
    ELSE <<s[1]>> \o Insert(x, Tail(s))

\* the same without sorting
NoSort(s) == s

\* commonDates.sort((a, b) => a.getTime() - b.getTime())
RECURSIVE SortAsc(_)
SortAsc(s) == IF s = <<>> THEN <<>> ELSE Insert(s[1], SortAsc(Tail(s)))

RECURSIVE FilterCommon(_, _)
FilterCommon(firstData, dateMaps) ==
    IF firstData = <<>> THEN <<>>
    ELSE LET d == firstData[1].date
             allHave == \A i \in 1..Len(dateMaps) : d \in DOMAIN dateMaps[i]
         IN (IF allHave THEN <<d>> ELSE <<>>) \o FilterCommon(Tail(firstData), dateMaps)

alignPriceData(pricesMap) ==
    IF Len(pricesMap) = 0 THEN [dates |-> <<>>, alignedPrices |-> <<>>]
    ELSE LET dateMaps == [i \in 1..Len(pricesMap) |-> DateMapOf(pricesMap[i].data)]
             commonDates == SortAsc(FilterCommon(pricesMap[1].data, dateMaps))
         IN [dates |-> commonDates,
             alignedPrices |->
                [i \in 1..Len(pricesMap) |->
                    [ticker |-> pricesMap[i].ticker,
                     prices |-> [k \in 1..Len(commonDates) |-> dateMaps[i][commonDates[k]]]]]]

\* ------------------------------------------------------------------
\* Math.sqrt, Math.log, Math.exp
\* ------------------------------------------------------------------
\* a surd [c, r] stands for c * sqrt(r), r >= 0
Surd(c, r) == [c |-> c, r |-> r]

FromQ(q) == Surd(q, One)

SIsNaN(s) ==
    \/ IsNaN(s.c) \/ IsNaN(s.r)
    \/ (s.c = Zero /\ ~IsFinite(s.r))
    \/ (~IsFinite(s.c) /\ s.r = Zero)

\* s === 0
SIsZero(s) == ~SIsNaN(s) /\ (s.c = Zero \/ s.r = Zero)

SIsFinite(s) == ~SIsNaN(s) /\ (SIsZero(s) \/ (IsFinite(s.c) /\ IsFinite(s.r)))

SSign(s) == IF SIsNaN(s) \/ SIsZero(s) THEN 0 ELSE Sign(s.c[1])

\* one representative for NaN, for 0 and for each infinity
SNorm(s) ==
    IF SIsNaN(s) THEN Surd(NaN, One)
    ELSE IF SIsZero(s) THEN Surd(Zero, One)
    ELSE IF ~SIsFinite(s) THEN Surd(<<SSign(s), 0>>, One)
    ELSE s

Sqrt(q) == IF IsNaN(q) \/ RLt(q, Zero) THEN Surd(NaN, One) ELSE SNorm(Surd(One, q))

SMul(a, b) == SNorm(Surd(RMul(a.c, b.c), RMul(a.r, b.r)))

\* c1 sqrt(r1) / (c2 sqrt(r2)) = (c1 / c2) sqrt(r1 / r2); x / 0 is an infinity or NaN
SDiv(a, b) ==
    IF SIsNaN(a) \/ SIsNaN(b) THEN Surd(NaN, One)
    ELSE IF SIsZero(b) THEN Surd(<<SSign(a), 0>>, One)
    ELSE SNorm(Surd(RDiv(a.c, b.c), RDiv(a.r, b.r)))

\* the square of the value, a rational
SSquare(s) == LET n == SNorm(s) IN RMul(RMul(n.c, n.c), n.r)

\* equality of the values denoted
SEq(a, b) == ~SIsNaN(a) /\ ~SIsNaN(b) /\ SSign(a) = SSign(b) /\ SSquare(a) = SSquare(b)

LN2 == <<7, 10>>

\* Math.log on positive rationals
RECURSIVE Ln(_)
Ln(q) ==
    IF RGe(q, Q(2)) THEN RAdd(LN2, Ln(RDiv(q, Q(2))))
    ELSE IF RLt(q, One) THEN RSub(Ln(RMul(q, Q(2))), LN2)
    ELSE RMul(RSub(q, One), LN2)

\* Math.exp on finite rationals
\* exp(x) cut after its first-order term
ExpFirstOrder(x) == RAdd(One, x)

RECURSIVE Exp(_)
Exp(x) ==
    IF RGe(x, LN2) THEN RMul(Q(2), Exp(RSub(x, LN2)))
    ELSE IF RLt(x, Zero) THEN RDiv(Exp(RAdd(x, LN2)), Q(2))
    ELSE RAdd(One, RDiv(x, LN2))

\* ------------------------------------------------------------------
\* lib/finance.ts
\* ------------------------------------------------------------------
TRADING_DAYS_PER_YEAR == 252

RISK_FREE_RATE == <<1, 25>>

Z_SCORE_95 == <<329, 200>>

RECURSIVE LogReturnsLoop(_, _)
LogReturnsLoop(prices, i) ==
    IF i > Len(prices) THEN <<>>
    ELSE (IF RGt(prices[i - 1], Zero) /\ RGt(prices[i], Zero)
          THEN <<Ln(RDiv(prices[i], prices[i - 1]))>>
          ELSE <<>>) \o LogReturnsLoop(prices, i + 1)

\* the same with a return of 0 emitted for a pair with a price <= 0
LogReturnsEveryPair(prices) ==
    [i \in 1..(Len(prices) - 1) |->
        IF RGt(prices[i], Zero) /\ RGt(prices[i + 1], Zero)
        THEN Ln(RDiv(prices[i + 1], prices[i]))
        ELSE Zero]

calculateLogReturns(prices) ==
    IF Len(prices) < 2 THEN <<>> ELSE LogReturnsLoop(prices, 2)

mean(values) ==
    IF Len(values) = 0 THEN Zero ELSE RDiv(RSum(values), Q(Len(values)))

stdDev(values) ==
    IF Len(values) < 2 THEN FromQ(Zero)
    ELSE LET avg == mean(values)
             squaredDiffs == [i \in 1..Len(values) |->
                                RMul(RSub(values[i], avg), RSub(values[i], avg))]
             variance == RDiv(RSum(squaredDiffs), Q(Len(values) - 1))
         IN Sqrt(variance)

annualizeReturn(dailyReturn) == RMul(dailyReturn, Q(TRADING_DAYS_PER_YEAR))

annualizeVolatility(dailyVol) == SMul(dailyVol, Sqrt(Q(TRADING_DAYS_PER_YEAR)))

Min(a, b) == IF a < b THEN a ELSE b

\* the same divided by n, without Bessel's correction
CovarianceByN(returns1, returns2) ==
    LET n == Min(Len(returns1), Len(returns2))
    IN IF n < 2 THEN Zero
       ELSE RDiv(RSum([i \in 1..n |->
                        RMul(RSub(returns1[i], mean(SubSeq(returns1, 1, n))),
                             RSub(returns2[i], mean(SubSeq(returns2, 1, n))))]),
                 Q(n))

covariance(returns1, returns2) ==
    LET n == Min(Len(returns1), Len(returns2))
    IN IF n < 2 THEN Zero
       ELSE LET mean1 == mean(SubSeq(returns1, 1, n))
                mean2 == mean(SubSeq(returns2, 1, n))
                prods == [i \in 1..n |->
                            RMul(RSub(returns1[i], mean1), RSub(returns2[i], mean2))]
            IN RDiv(RSum(prods), Q(n - 1))

\* returnsMatrix.get(ticker) || []
ReturnsOrEmpty(returnsMatrix, t) ==
    IF MapHas(returnsMatrix, t) THEN MapGet(returnsMatrix, t).returns ELSE <<>>

\* the same with the cells below the diagonal left at their initial 0
CovarianceMatrixUpper(returnsMatrix, tickers) ==
    [i \in 1..Len(tickers) |->
        [j \in 1..Len(tickers) |->
            IF j < i THEN Zero
            ELSE RMul(covariance(ReturnsOrEmpty(returnsMatrix, tickers[i]),
                                 ReturnsOrEmpty(returnsMatrix, tickers[j])),
                      Q(TRADING_DAYS_PER_YEAR))]]

buildCovarianceMatrix(returnsMatrix, tickers) ==
    [i \in 1..Len(tickers) |->
        [j \in 1..Len(tickers) |->
            RMul(covariance(ReturnsOrEmpty(returnsMatrix, tickers[i]),
                            ReturnsOrEmpty(returnsMatrix, tickers[j])),
                 Q(TRADING_DAYS_PER_YEAR))]]

\* the pairs (i, j) in the order of the double loop
PairSeq(n) == [k \in 1..(n * n) |-> <<((k - 1) \div n) + 1, ((k - 1) % n) + 1>>]

\* the same without the replacement of a negative variance by 0
VolatilityNoClamp(weights, covMatrix) ==
    IF Len(weights) = 0 \/ Len(covMatrix) # Len(weights) THEN FromQ(Zero)
    ELSE Sqrt(RSum([k \in 1..(Len(weights) * Len(weights)) |->
                RMul(RMul(weights[PairSeq(Len(weights))[k][1]],
                          weights[PairSeq(Len(weights))[k][2]]),
                     covMatrix[PairSeq(Len(weights))[k][1]][PairSeq(Len(weights))[k][2]])]))

calculatePortfolioVolatility(weights, covMatrix) ==
    LET n == Len(weights)
    IN IF n = 0 \/ Len(covMatrix) # n THEN FromQ(Zero)
       ELSE LET terms == [k \in 1..(n * n) |->
                            LET i == PairSeq(n)[k][1]
                                j == PairSeq(n)[k][2]
                            IN RMul(RMul(weights[i], weights[j]), covMatrix[i][j])]
                portfolioVariance == RSum(terms)
            IN Sqrt(IF RLt(portfolioVariance, Zero) THEN Zero ELSE portfolioVariance)

\* the same without the test of the lengths, summed over the common positions
PortfolioReturnNoLengthTest(weights, assetReturns) ==
    RSum([i \in 1..Min(Len(weights), Len(assetReturns)) |->
            RMul(weights[i], assetReturns[i])])

calculatePortfolioReturn(weights, assetReturns) ==
    IF Len(weights) # Len(assetReturns) THEN Zero
    ELSE RSum([i \in 1..Len(weights) |-> RMul(weights[i], assetReturns[i])])

\* the same without the test for a zero volatility
SharpeNoZeroTest(portfolioReturn, portfolioVol, riskFreeRate) ==
    LET rf == IF riskFreeRate = Null THEN RISK_FREE_RATE ELSE riskFreeRate[1]
    IN Some(SDiv(FromQ(RSub(portfolioReturn, rf)), portfolioVol))

\* the volatility is a surd, the result Null or Some(surd); riskFreeRate is
\* Null when the argument is left out
calculateSharpeRatio(portfolioReturn, portfolioVol, riskFreeRate) ==
    LET rf == IF riskFreeRate = Null THEN RISK_FREE_RATE ELSE riskFreeRate[1]
    IN IF SIsZero(portfolioVol) THEN Null
       ELSE Some(SDiv(FromQ(RSub(portfolioReturn, rf)), portfolioVol))

RECURSIVE SimLoop(_, _)
SimLoop(values, rets) ==
    IF rets = <<>> THEN values
    ELSE LET simpleReturn == RSub(Exp(rets[1]), One)
         IN SimLoop(Append(values, RMul(values[Len(values)], RAdd(One, simpleReturn))),
                    Tail(rets))

simulatePortfolioValues(portfolioReturns, initialValue) ==
    SimLoop(<<initialValue>>, portfolioReturns)

RECURSIVE DrawdownLoop(_, _, _)
DrawdownLoop(values, i, runningMax) ==
    IF i > Len(values) THEN <<>>
    ELSE LET newMax == IF RGt(values[i], runningMax) THEN values[i] ELSE runningMax
         IN <<RSub(RDiv(values[i], newMax), One)>> \o DrawdownLoop(values, i + 1, newMax)

\* the same measured against the first value, the running maximum never updated
DrawdownFromFirst(values) ==
    [i \in 1..Len(values) |-> RSub(RDiv(values[i], values[1]), One)]

calculateDrawdownSeries(values) ==
    IF Len(values) = 0 THEN <<>> ELSE DrawdownLoop(values, 1, values[1])

\* the same taking the first drawdown for the minimum
FirstOf(s) == s[1]

RECURSIVE RMinSeq(_)
RMinSeq(s) ==
    IF Len(s) = 1 THEN s[1]
    ELSE LET m == RMinSeq(Tail(s)) IN IF RLt(s[1], m) THEN s[1] ELSE m

calculateMaxDrawdown(values) ==
    LET drawdowns == calculateDrawdownSeries(values)
    IN IF Len(drawdowns) = 0 THEN Zero ELSE RMinSeq(drawdowns)

\* the same without squaring
HHINoSquare(weights) == RSum(weights)

calculateHHI(weights) == RSum([i \in 1..Len(weights) |-> RMul(weights[i], weights[i])])

RMax(a, b) == IF IsNaN(a) \/ IsNaN(b) THEN NaN ELSE IF RLt(a, b) THEN b ELSE a

RMin(a, b) == IF IsNaN(a) \/ IsNaN(b) THEN NaN ELSE IF RLt(b, a) THEN b ELSE a

\* the same without the clamp to 0..100
DiversificationNoClamp(weights) ==
    IF Len(weights) <= 1 THEN Zero
    ELSE RMul(RDiv(RSub(One, calculateHHI(weights)),
                   RSub(One, RDiv(One, Q(Len(weights))))), Q(100))

calculateDiversificationScore(weights) ==
    LET n == Len(weights)
    IN IF n <= 1 THEN Zero
       ELSE LET hhi == calculateHHI(weights)
                minHHI == RDiv(One, Q(n))
                score == RMul(RDiv(RSub(One, hhi), RSub(One, minHHI)), Q(100))
            IN RMax(Zero, RMin(Q(100), score))

RECURSIVE InsertDesc(_, _)
InsertDesc(x, s) ==
    IF s = <<>> THEN <<x>>
    ELSE IF RGt(x, s[1]) THEN <<x>> \o s
    ELSE <<s[1]>> \o InsertDesc(x, Tail(s))

RECURSIVE SortDesc(_)
SortDesc(s) == IF s = <<>> THEN <<>> ELSE InsertDesc(s[1], SortDesc(Tail(s)))

topNWeight(weights, n) == RSum(SubSeq(SortDesc(weights), 1, Min(n, Len(weights))))

\* the same with the volatility left out of the product
VaRWithoutVol(portfolioVolatility, portfolioValue, horizonDays) ==
    SMul(FromQ(Z_SCORE_95), FromQ(portfolioValue))

calculateVaR95(portfolioVolatility, portfolioValue, horizonDays) ==
    LET dailyVol == SDiv(portfolioVolatility, Sqrt(Q(TRADING_DAYS_PER_YEAR)))
        horizonVol == SMul(dailyVol, Sqrt(horizonDays))
    IN SMul(SMul(FromQ(Z_SCORE_95), horizonVol), FromQ(portfolioValue))

\* let minLength = Infinity
NoLength == -1

\* the same with a ticker that has no series counted as a series of length 0
RECURSIVE MinLengthMissingIsZero(_, _, _)
MinLengthMissingIsZero(returnsMatrix, tickers, minLength) ==
    IF tickers = <<>> THEN minLength
    ELSE LET t == tickers[1]
             len == IF MapHas(returnsMatrix, t) THEN Len(MapGet(returnsMatrix, t).returns) ELSE 0
         IN MinLengthMissingIsZero(returnsMatrix, Tail(tickers),
                                   IF minLength = NoLength THEN len ELSE Min(minLength, len))

RECURSIVE MinLengthLoop(_, _, _)
MinLengthLoop(returnsMatrix, tickers, minLength) ==
    IF tickers = <<>> THEN minLength
    ELSE LET t == tickers[1]
             next == IF MapHas(returnsMatrix, t)
                     THEN (IF minLength = NoLength
                           THEN Len(MapGet(returnsMatrix, t).returns)
                           ELSE Min(minLength, Len(MapGet(returnsMatrix, t).returns)))
                     ELSE minLength
         IN MinLengthLoop(returnsMatrix, Tail(tickers), next)

\* weights.get(ticker) || 0
WeightOrZero(weights, t) ==
    IF MapHas(weights, t) THEN OrZero(MapGet(weights, t).weight) ELSE Zero

calculatePortfolioDailyReturns(returnsMatrix, weights, tickers) ==
    LET minLength == MinLengthLoop(returnsMatrix, tickers, NoLength)
    IN IF minLength = NoLength \/ minLength = 0 THEN <<>>
       ELSE [i \in 1..minLength |->
                RSum([k \in 1..Len(tickers) |->
                        IF MapHas(returnsMatrix, tickers[k])
                           /\ i <= Len(MapGet(returnsMatrix, tickers[k]).returns)
                        THEN RMul(WeightOrZero(weights, tickers[k]),
                                  MapGet(returnsMatrix, tickers[k]).returns[i])
                        ELSE Zero])]

\* Math.max(0, Math.min(100, x))
Clamp100(x) == RMax(Zero, RMin(Q(100), x))

\* 10% vol = 100, linear decay down to 0 at 50%
VolScore(annualVolatility) ==
    IF RLe(annualVolatility, <<1, 10>>) THEN Q(100)
    ELSE IF RGe(annualVolatility, <<1, 2>>) THEN Zero
    ELSE RSub(Q(100), RMul(RDiv(RSub(annualVolatility, <<1, 10>>), <<2, 5>>), Q(100)))

\* absDrawdown is Math.abs(maxDrawdown)
DrawdownScore(absDrawdown) ==
    IF RLe(absDrawdown, Zero) THEN Q(100)
    ELSE IF RGe(absDrawdown, <<1, 2>>) THEN Zero
    ELSE RSub(Q(100), RMul(RDiv(absDrawdown, <<1, 2>>), Q(100)))

\* the same with a null Sharpe ratio scored as a Sharpe ratio of 0
SharpeScoreNullAsZero(sharpeRatio) ==
    IF sharpeRatio = Null THEN Q(40)
    ELSE IF RLt(sharpeRatio[1], Zero) THEN RMax(Zero, RAdd(Q(20), RMul(sharpeRatio[1], Q(20))))
    ELSE IF RGe(sharpeRatio[1], Q(2)) THEN Q(100)
    ELSE RAdd(Q(40), RMul(RDiv(sharpeRatio[1], Q(2)), Q(60)))

\* sharpeRatio is Null or Some(number)
SharpeScore(sharpeRatio) ==
    IF sharpeRatio = Null THEN Q(50)
    ELSE IF RLt(sharpeRatio[1], Zero) THEN RMax(Zero, RAdd(Q(20), RMul(sharpeRatio[1], Q(20))))
    ELSE IF RGe(sharpeRatio[1], Q(2)) THEN Q(100)
    ELSE RAdd(Q(40), RMul(RDiv(sharpeRatio[1], Q(2)), Q(60)))

\* the same without the final clamps
HealthComponentsNoClamp(diversificationScore, annualVolatility, maxDrawdown, sharpeRatio) ==
    [diversificationScore |-> diversificationScore,
     volatilityScore |-> VolScore(annualVolatility),
     drawdownScore |-> DrawdownScore(RAbs(maxDrawdown)),
     sharpeScore |-> SharpeScore(sharpeRatio)]

calculateHealthComponents(diversificationScore, annualVolatility, maxDrawdown, sharpeRatio) ==
    [diversificationScore |-> Clamp100(diversificationScore),
     volatilityScore |-> Clamp100(VolScore(annualVolatility)),
     drawdownScore |-> Clamp100(DrawdownScore(RAbs(maxDrawdown))),
     sharpeScore |-> Clamp100(SharpeScore(sharpeRatio))]

\* Math.round on a finite number: the nearest integer, a tie going up
Round(x) == (2 * x[1] + x[2]) \div (2 * x[2])

\* the weighted sum of the four sub-scores
WeightedScore(components) ==
    RAdd(RAdd(RAdd(RMul(<<3, 10>>, components.diversificationScore),
                   RMul(<<1, 5>>, components.volatilityScore)),
              RMul(<<1, 5>>, components.drawdownScore)),
         RMul(<<3, 10>>, components.sharpeScore))

\* the same with the four sub-scores weighted equally
HealthScoreEqualWeights(components) ==
    Round(Clamp100(RDiv(RAdd(RAdd(RAdd(components.diversificationScore,
                                       components.volatilityScore),
                                  components.drawdownScore),
                             components.sharpeScore), Q(4))))

calculateHealthScore(components) == Round(Clamp100(WeightedScore(components)))

\* ------------------------------------------------------------------
\* lib/parser.ts
\* A holdings text is a sequence of lines.  A line is a record
\* [kind, ticker, num, pct]: kind "blank" (empty after trim), "comment"
\* (nothing before #), "invalid" (no regex match) or "holding"; num is Null
\* (no number), Some(NaN) (a lone ".") or Some(q); pct tells a trailing %.
\* ------------------------------------------------------------------
Line(kind, ticker, num, pct) == [kind |-> kind, ticker |-> ticker, num |-> num, pct |-> pct]

\* match[1].toUpperCase() on the ticker symbols of the model
ToUpperCase(t) == IF t = "a" THEN "A" ELSE IF t = "b" THEN "B" ELSE t

\* [tag |-> "null" | "throw" | "ok", ticker, weight]
parseLine(line) ==
    IF line.kind = "comment" THEN [tag |-> "null", ticker |-> "", weight |-> Zero]
    ELSE IF line.kind # "holding" THEN [tag |-> "throw", ticker |-> "", weight |-> Zero]
    ELSE IF line.num = Null
    THEN [tag |-> "ok", ticker |-> ToUpperCase(line.ticker), weight |-> Zero]
    ELSE LET num == line.num[1]
         IN IF IsNaN(num) \/ RLt(num, Zero)
            THEN [tag |-> "throw", ticker |-> "", weight |-> Zero]
            ELSE LET weight == IF line.pct THEN RDiv(num, Q(100))
                               ELSE IF RGt(num, One) THEN RDiv(num, Q(100))
                               ELSE num
                 IN [tag |-> "ok", ticker |-> ToUpperCase(line.ticker),
                     weight |-> IF RGt(weight, One) THEN One ELSE weight]

FindIndex(holdings, ticker) ==
    IF \E i \in 1..Len(holdings) : holdings[i].ticker = ticker
    THEN CHOOSE i \in 1..Len(holdings) :
            /\ holdings[i].ticker = ticker
            /\ \A j \in 1..(i - 1) : holdings[j].ticker # ticker
    ELSE 0

\* the body of the loop over lines, for one line's parseLine result
\* the same without the merge of a repeated ticker
ParseStepNoMerge(holdings, parsed) ==
    IF parsed.tag # "ok" THEN holdings
    ELSE Append(holdings, [ticker |-> parsed.ticker, weight |-> parsed.weight])

ParseStep(holdings, parsed) ==
    IF parsed.tag # "ok" THEN holdings
    ELSE IF FindIndex(holdings, parsed.ticker) > 0
    THEN [holdings EXCEPT ![FindIndex(holdings, parsed.ticker)].weight = RAdd(@, parsed.weight)]
    ELSE Append(holdings, [ticker |-> parsed.ticker, weight |-> parsed.weight])

RECURSIVE ParseLoop(_, _)
ParseLoop(lines, holdings) ==
    IF lines = <<>> THEN holdings
    ELSE ParseLoop(Tail(lines), ParseStep(holdings, parseLine(lines[1])))

SelectNonBlank(text) == SelectSeq(text, LAMBDA l : l.kind # "blank")

WeightsOf(holdings) == [i \in 1..Len(holdings) |-> holdings[i].weight]

ParseFailure == [ok |-> FALSE, holdings |-> <<>>]

\* the normalisation of the weights: equal weights when none was given
NormalizeWeights(holdings, totalWeight) ==
    IF RLe(totalWeight, Zero)
    THEN [i \in 1..Len(holdings) |->
            [holdings[i] EXCEPT !.weight = RDiv(One, Q(Len(holdings)))]]
    ELSE [i \in 1..Len(holdings) |->
            [holdings[i] EXCEPT !.weight = RDiv(@, totalWeight)]]

\* the final validation of the sum of the normalised weights
ValidateSum(normalized) ==
    IF RGt(RAbs(RSub(RSum(WeightsOf(normalized)), One)), <<1, 1000>>)
    THEN ParseFailure
    ELSE [ok |-> TRUE, holdings |-> normalized]

\* parseHoldingsText after its loop over the lines
AfterLoop(holdings) ==
    IF holdings = <<>> THEN ParseFailure
    ELSE ValidateSum(NormalizeWeights(holdings, RSum(WeightsOf(holdings))))

\* [ok |-> FALSE, holdings |-> <<>>] when it throws
parseHoldingsText(text) ==
    IF text = <<>> \/ SelectNonBlank(text) = <<>> THEN ParseFailure
    ELSE AfterLoop(ParseLoop(SelectNonBlank(text), <<>>))

\* ------------------------------------------------------------------
\* Inputs of the request handler
\* ------------------------------------------------------------------
\* the 20 of fetchAllHistoricalPrices and the 20 of POST
MIN_DATA_POINTS == 20

\* a threshold one day lower
MIN_COMMON_DAYS_19 == MIN_DATA_POINTS - 1

MIN_COMMON_DAYS == 20

DEFAULT_PORTFOLIO_VALUE == 10000

\* price of a feed on a day: "flat" never moves, "bump" doubles for one day,
\* "step" doubles for good, "zero" is "bump" with one quote of 0
PriceOn(pattern, d) ==
    IF pattern = "flat" THEN Q(2)
    ELSE IF pattern = "step" THEN (IF d < 8 THEN Q(2) ELSE Q(4))
    ELSE IF pattern = "zero" /\ d = 3 THEN Zero
    ELSE IF d = 5 THEN Q(4) ELSE Q(2)

\* what fetchHistoricalPrices resolves to: points sorted by date
Feed(first, last, pattern) ==
    [k \in 1..(last - first + 1) |->
        [date |-> first + k - 1, adjClose |-> PriceOn(pattern, first + k - 1)]]

Feeds ==
    { Feed(1, MIN_DATA_POINTS, "flat"),
      Feed(2, MIN_DATA_POINTS + 1, "bump"),
      Feed(1, MIN_DATA_POINTS + ExtraDays, "step"),
      Feed(1, MIN_DATA_POINTS + ExtraDays, "zero"),
      Feed(1, MIN_DATA_POINTS - 1, "flat") }

\* a fetch throws or resolves to a feed
FetchOutcomes == {[ok |-> FALSE, data |-> <<>>]} \cup {[ok |-> TRUE, data |-> f] : f \in Feeds}

Sectors == {"Technology", "Unknown"}

HoldingsTexts ==
    { <<>>,
      <<Line("blank", "", Null, FALSE)>>,
      <<Line("invalid", "", Null, FALSE), Line("comment", "", Null, FALSE)>>,
      <<Line("holding", "A", Null, FALSE)>>,
      <<Line("holding", "A", Null, FALSE), Line("holding", "B", Null, FALSE)>>,
      <<Line("holding", "A", Some(Q(50)), FALSE), Line("holding", "B", Null, FALSE)>>,
      <<Line("holding", "A", Some(Q(60)), TRUE), Line("holding", "B", Some(<<2, 5>>), FALSE)>>,
      <<Line("holding", "B", Some(Q(30)), FALSE), Line("holding", "A", Some(Q(10)), TRUE),
        Line("holding", "B", Some(<<1, 2>>), FALSE)>> }

PortfolioValues == {Null, Some(Q(2500)), Some(Zero), Some(Q(-10000))}

Bodies ==
    {[json |-> FALSE, hasText |-> FALSE, holdingsText |-> <<>>, portfolioValue |-> Null],
     [json |-> TRUE, hasText |-> FALSE, holdingsText |-> <<>>, portfolioValue |-> Null]}
    \cup [json : {TRUE}, hasText : {TRUE}, holdingsText : HoldingsTexts,
          portfolioValue : PortfolioValues]

\* ------------------------------------------------------------------
\* app/api/analyzePortfolio/route.ts : POST, with fetchAllHistoricalPrices
\* (lib/yahoo.ts) inlined at its await
\* ------------------------------------------------------------------
ErrorResponse(status, error, details) ==
    [status |-> status, error |-> error, details |-> details]

NoWork == [stage |-> "none"]

HInit ==
    /\ pc = "idle"
    /\ body = [json |-> FALSE, hasText |-> FALSE, holdingsText |-> <<>>, portfolioValue |-> Null]
    /\ parsedHoldings = <<>>
    /\ fetches = <<>>
    /\ errors = <<>>
    /\ work = NoWork
    /\ response = [status |-> 0]
    /\ log = <<>>

Respond(r) == pc' = "done" /\ response' = r

\* request.json(), the validation, parseHoldingsText and the call of
\* fetchAllHistoricalPrices up to its await
Request ==
    /\ pc = "idle"
    /\ \E b \in Bodies :
        /\ body' = b
        /\ IF ~b.json
           THEN /\ Respond(ErrorResponse(500, "An unexpected error occurred", "json"))
                /\ UNCHANGED <<parsedHoldings, fetches, log>>
           ELSE IF ~b.hasText \/ b.holdingsText = <<>>
           THEN /\ Respond(ErrorResponse(400, "Holdings text is required", ""))
                /\ UNCHANGED <<parsedHoldings, fetches, log>>
           ELSE \E parsed \in {parseHoldingsText(b.holdingsText)} :
                   IF ~parsed.ok
                   THEN /\ Respond(ErrorResponse(400, "Failed to parse holdings", "message"))
                        /\ log' = <<"parse">>
                        /\ UNCHANGED <<parsedHoldings, fetches>>
                   ELSE IF Len(parsed.holdings) = 0
                   THEN /\ Respond(ErrorResponse(400, "No valid holdings found", ""))
                        /\ log' = <<"parse">>
                        /\ UNCHANGED <<parsedHoldings, fetches>>
                   ELSE /\ parsedHoldings' = parsed.holdings
                        /\ fetches' = [i \in 1..Len(parsed.holdings) |->
                                          [state |-> "pending", data |-> <<>>, order |-> 0]]
                        /\ log' = <<"parse", "fetchPrices">>
                        /\ pc' = "fetchingPrices"
                        /\ UNCHANGED response
    /\ UNCHANGED <<errors, work>>

\* the number of promises settled so far; a promise records its rank
Settled(fs) == Cardinality({j \in 1..Len(fs) : fs[j].state # "pending"})

\* one of the parallel fetchHistoricalPrices promises settles
FetchPriceDone ==
    /\ pc = "fetchingPrices"
    /\ \E i \in 1..Len(fetches) :
        /\ fetches[i].state = "pending"
        /\ \E o \in FetchOutcomes :
            IF ~o.ok
            THEN /\ errors' = Append(errors, [ticker |-> parsedHoldings[i].ticker, why |-> "failed"])
                 /\ fetches' = [fetches EXCEPT ![i] = [state |-> "null", data |-> <<>>,
                                                    order |-> Settled(fetches) + 1]]
            ELSE IF Len(o.data) < MIN_DATA_POINTS
            THEN /\ errors' = Append(errors, [ticker |-> parsedHoldings[i].ticker, why |-> "insufficient"])
                 /\ fetches' = [fetches EXCEPT ![i] = [state |-> "null", data |-> <<>>,
                                                    order |-> Settled(fetches) + 1]]
            ELSE /\ fetches' = [fetches EXCEPT ![i] = [state |-> "ok", data |-> o.data,
                                                    order |-> Settled(fetches) + 1]]
                 /\ UNCHANGED errors
    /\ UNCHANGED <<pc, body, parsedHoldings, work, response, log>>

\* the same collecting the results in the order in which the fetches completed
SettledInCompletionOrder(settled, tickers, i) ==
    [k \in 1..Cardinality({j \in 1..Len(settled) : settled[j].state = "ok"}) |->
        LET c == CHOOSE j \in 1..Len(settled) :
                    /\ settled[j].state = "ok"
                    /\ Cardinality({l \in 1..Len(settled) :
                            settled[l].state = "ok" /\ settled[l].order <= settled[j].order}) = k
        IN [ticker |-> tickers[c], data |-> settled[c].data]]

\* for (const result of settled) if (result) results.set(...)
RECURSIVE SettledResults(_, _, _)
SettledResults(settled, tickers, i) ==
    IF i > Len(settled) THEN <<>>
    ELSE (IF settled[i].state = "ok"
          THEN <<[ticker |-> tickers[i], data |-> settled[i].data]>>
          ELSE <<>>) \o SettledResults(settled, tickers, i + 1)

TickersOf(hs) == [i \in 1..Len(hs) |-> hs[i].ticker]

\* Recalculate weights for valid tickers only
AdjustWeights(weightsMap, validTickers) ==
    LET totalValidWeight ==
            RSum([i \in 1..Len(validTickers) |-> WeightOrZero(weightsMap, validTickers[i])])
    IN [i \in 1..Len(validTickers) |->
            [ticker |-> validTickers[i],
             weight |-> RDiv(WeightOrZero(weightsMap, validTickers[i]), totalValidWeight)]]

\* the same never throwing
NeverThrows(results) == FALSE

\* if (results.size === 0) throw
NoResults(results) == Len(results) = 0

\* Promise.all resolves: the rest of fetchAllHistoricalPrices, then POST up
\* to the await of fetchAllMetadata
PricesSettled ==
    /\ pc = "fetchingPrices"
    /\ \A i \in 1..Len(fetches) : fetches[i].state # "pending"
    /\ LET pricesMap == SettledResults(fetches, TickersOf(parsedHoldings), 1)
           validTickers == MapKeys(pricesMap)
       IN IF NoResults(pricesMap)
          THEN /\ Respond(ErrorResponse(500, "Failed to fetch market data", "errors"))
               /\ UNCHANGED <<work, log>>
          ELSE IF Len(validTickers) = 0
          THEN /\ Respond(ErrorResponse(400,
                    "Could not fetch data for any of the provided tickers", ""))
               /\ UNCHANGED <<work, log>>
          ELSE /\ work' = [stage |-> "prices",
                           pricesMap |-> pricesMap,
                           validTickers |-> validTickers,
                           adjustedWeights |-> AdjustWeights(parsedHoldings, validTickers)]
               /\ log' = Append(log, "fetchMetadata")
               /\ pc' = "fetchingMetadata"
               /\ UNCHANGED response
    /\ UNCHANGED <<body, parsedHoldings, fetches, errors>>

\* alignedPrices.get(ticker) || []
PricesOrEmpty(alignedPrices, t) ==
    IF MapHas(alignedPrices, t) THEN MapGet(alignedPrices, t).prices ELSE <<>>

\* .sort((a, b) => b.weight - a.weight), a stable sort
RECURSIVE InsertSector(_, _)
InsertSector(x, s) ==
    IF s = <<>> THEN <<x>>
    ELSE IF RGe(x.weight, s[1].weight) \/ IsNaN(x.weight) \/ IsNaN(s[1].weight) THEN <<x>> \o s
    ELSE <<s[1]>> \o InsertSector(x, Tail(s))

RECURSIVE SortSectors(_)
SortSectors(s) == IF s = <<>> THEN <<>> ELSE InsertSector(s[1], SortSectors(Tail(s)))

\* sectorMap.set(sector, (sectorMap.get(sector) || 0) + holding.weight)
RECURSIVE SectorLoop(_, _)
SectorLoop(holdingsMetrics, sectorMap) ==
    IF holdingsMetrics = <<>> THEN sectorMap
    ELSE LET h == holdingsMetrics[1]
             idx == IF \E i \in 1..Len(sectorMap) : sectorMap[i].sector = h.sector
                    THEN CHOOSE i \in 1..Len(sectorMap) : sectorMap[i].sector = h.sector
                    ELSE 0
             next == IF idx > 0
                     THEN [sectorMap EXCEPT ![idx].weight = RAdd(OrZero(@), h.weight)]
                     ELSE Append(sectorMap, [sector |-> h.sector, weight |-> RAdd(Zero, h.weight)])
         IN SectorLoop(Tail(holdingsMetrics), next)

Slice1(s) == SubSeq(s, 2, Len(s))

\* Steps 5 to 14 of POST: every metric, and the response but its diagnosis
\* (the healthScore of step 12 reads the metrics and changes none of them;
\* the response modelled here does not carry it)
ComputeMetrics(al, validTickers, adjustedWeights, metadata, portfolioValue) ==
    LET n == Len(validTickers)
        returnsMatrix == [i \in 1..n |->
            [ticker |-> validTickers[i],
             returns |-> calculateLogReturns(PricesOrEmpty(al.alignedPrices, validTickers[i]))]]
        assetAnnualReturns == [i \in 1..n |-> annualizeReturn(mean(returnsMatrix[i].returns))]
        assetAnnualVols == [i \in 1..n |-> annualizeVolatility(stdDev(returnsMatrix[i].returns))]
        weights == [i \in 1..n |-> WeightOrZero(adjustedWeights, validTickers[i])]
        covMatrix == buildCovarianceMatrix(returnsMatrix, validTickers)
        portfolioVol == calculatePortfolioVolatility(weights, covMatrix)
        portfolioReturn == calculatePortfolioReturn(weights, assetAnnualReturns)
        sharpeRatio == calculateSharpeRatio(portfolioReturn, portfolioVol, Null)
        portfolioDailyReturns ==
            calculatePortfolioDailyReturns(returnsMatrix, adjustedWeights, validTickers)
        portfolioValues == simulatePortfolioValues(portfolioDailyReturns, One)
        drawdowns == calculateDrawdownSeries(portfolioValues)
        maxDrawdown == calculateMaxDrawdown(portfolioValues)
        hhi == calculateHHI(weights)
        diversificationScore == calculateDiversificationScore(weights)
        topWeight == topNWeight(weights, 1)
        var95 == calculateVaR95(portfolioVol, portfolioValue, One)
        holdingsMetrics == [i \in 1..n |->
            [ticker |-> validTickers[i],
             weight |-> WeightOrZero(adjustedWeights, validTickers[i]),
             sector |-> metadata[i],
             annualReturn |-> assetAnnualReturns[i],
             annualVol |-> assetAnnualVols[i]]]
        sectors == SortSectors(SectorLoop(holdingsMetrics, <<>>))
        portfolioMetrics ==
            [expectedAnnualReturn |-> portfolioReturn,
             annualVolatility |-> portfolioVol,
             sharpeRatio |-> sharpeRatio,
             maxDrawdown |-> maxDrawdown,
             diversificationHHI |-> hhi,
             diversificationScore |-> diversificationScore,
             topHoldingWeight |-> topWeight,
             var95 |-> var95,
             numHoldings |-> n]
        timeseries ==
            [dates |-> Slice1(al.dates),
             portfolioValues |-> Slice1(portfolioValues),
             drawdowns |-> Slice1(drawdowns)]
    IN [stage |-> "metrics",
        dates |-> al.dates,
        alignedPrices |-> al.alignedPrices,
        validTickers |-> validTickers,
        adjustedWeights |-> adjustedWeights,
        returnsMatrix |-> returnsMatrix,
        weights |-> weights,
        covMatrix |-> covMatrix,
        portfolioVol |-> portfolioVol,
        portfolioDailyReturns |-> portfolioDailyReturns,
        holdings |-> holdingsMetrics,
        portfolio |-> portfolioMetrics,
        sectors |-> sectors,
        timeseries |-> timeseries]

\* const { portfolioValue = 10000 } = body
PortfolioValueOf(b) ==
    IF b.portfolioValue = Null THEN Q(DEFAULT_PORTFOLIO_VALUE) ELSE b.portfolioValue[1]

\* fetchAllMetadata resolves (fetchQuoteSummary never throws): alignment,
\* the threshold, every metric, and the call of generateDiagnosis
MetadataDone ==
    /\ pc = "fetchingMetadata"
    /\ \E metadata \in [1..Len(work.validTickers) -> Sectors] :
        LET al == alignPriceData(work.pricesMap)
        IN IF Len(al.dates) < MIN_COMMON_DAYS
           THEN /\ Respond(ErrorResponse(400, "Insufficient historical data",
                        <<"Only", Len(al.dates), "common trading days found. Need at least", 20>>))
                /\ work' = [stage |-> "aligned", dates |-> al.dates,
                            alignedPrices |-> al.alignedPrices]
                /\ log' = Append(log, "align")
           ELSE /\ work' = ComputeMetrics(al, work.validTickers, work.adjustedWeights,
                                          metadata, PortfolioValueOf(body))
                /\ log' = log \o <<"align", "metrics", "diagnosis">>
                /\ pc' = "diagnosing"
                /\ UNCHANGED response
    /\ UNCHANGED <<body, parsedHoldings, fetches, errors>>

\* lib/llm.ts generateDiagnosis: no API key, content, no content, a throw
DiagnosisOutcomes == {"nokey", "content", "empty", "throw"}

\* the same returning the empty content of the LLM response as it is
DiagnosisWithoutContentTest(outcome) ==
    IF outcome = "content" THEN "llm" ELSE IF outcome = "empty" THEN "" ELSE "fallback"

generateDiagnosis(outcome) == IF outcome = "content" THEN "llm" ELSE "fallback"

\* the same answering 500 after the diagnosis call
DiagnosisFails ==
    /\ pc = "diagnosing"
    /\ Respond(ErrorResponse(500, "An unexpected error occurred", "diagnosis"))
    /\ UNCHANGED <<body, parsedHoldings, fetches, errors, work, log>>

\* generateDiagnosis resolves: the response is built and returned
DiagnosisDone ==
    /\ pc = "diagnosing"
    /\ \E o \in DiagnosisOutcomes :
        Respond([status |-> 200,
                 holdings |-> work.holdings,
                 portfolio |-> work.portfolio,
                 sectors |-> work.sectors,
                 timeseries |-> work.timeseries,
                 diagnosis |-> generateDiagnosis(o)])
    /\ UNCHANGED <<body, parsedHoldings, fetches, errors, work, log>>

HNext == Request \/ FetchPriceDone \/ PricesSettled \/ MetadataDone \/ DiagnosisDone

\* ------------------------------------------------------------------
\* Inputs of the pure-function harness
\* ------------------------------------------------------------------
Tickers == {"A", "B"}

PriceVals == {Q(1), Q(2)}

Points == [date : 1..MaxDate, adjClose : PriceVals]

NoDupDates(data) == \A i, j \in 1..Len(data) : i # j => data[i].date # data[j].date

\* price series without duplicate dates, in any order
SeriesInputs == {s \in SeqsUpTo(Points, MaxPoints) : NoDupDates(s)}

TickerOrders == {s \in SeqsUpTo(Tickers, Cardinality(Tickers)) :
                    \A i, j \in 1..Len(s) : i # j => s[i] # s[j]}

PricesMapInputs ==
    UNION {{[i \in 1..Len(ts) |-> [ticker |-> ts[i], data |-> ds[i]]] :
                ds \in [1..Len(ts) -> SeriesInputs]} : ts \in TickerOrders}

\* ------------------------------------------------------------------
\* Pure-function harness
\* ------------------------------------------------------------------
FnInit == fn = "none" /\ args = Null /\ out = Null

Apply_alignPriceData ==
    /\ fn = "none"
    /\ \E pm \in PricesMapInputs :
        /\ fn' = "alignPriceData"
        /\ args' = pm
        /\ out' = alignPriceData(pm)

ReturnVals == {Zero, LN2}

ReturnSeriesInputs == SeqsUpTo(ReturnVals, MaxLen)

ReturnsMatrixInputs ==
    UNION {{[i \in 1..Len(ts) |-> [ticker |-> ts[i], returns |-> rs[i]]] :
                rs \in [1..Len(ts) -> ReturnSeriesInputs]} : ts \in TickerOrders}

WeightMapInputs ==
    { <<[ticker |-> "A", weight |-> <<3, 5>>], [ticker |-> "B", weight |-> <<2, 5>>]>>,
      <<[ticker |-> "A", weight |-> One]>> }

Apply_calculatePortfolioDailyReturns ==
    /\ fn = "none"
    /\ \E rm \in ReturnsMatrixInputs, w \in WeightMapInputs, ts \in TickerOrders :
        /\ fn' = "calculatePortfolioDailyReturns"
        /\ args' = [returnsMatrix |-> rm, weights |-> w, tickers |-> ts]
        /\ out' = calculatePortfolioDailyReturns(rm, w, ts)

SharpeReturnInputs == {<<-1, 10>>, Zero, <<1, 25>>, <<1, 5>>}

SharpeVolInputs ==
    {Sqrt(Zero), Surd(Zero, Q(2)), Surd(<<1, 5>>, One), Sqrt(Q(2)), Sqrt(<<1, 25>>),
     Surd(<<-1, 5>>, One)}

SharpeRateInputs == {Null, Some(Zero), Some(<<1, 20>>)}

Apply_calculateSharpeRatio ==
    /\ fn = "none"
    /\ \E r \in SharpeReturnInputs, v \in SharpeVolInputs, rf \in SharpeRateInputs :
        /\ fn' = "calculateSharpeRatio"
        /\ args' = [portfolioReturn |-> r, portfolioVol |-> v, riskFreeRate |-> rf]
        /\ out' = calculateSharpeRatio(r, v, rf)

WeightVals == {<<k, WeightGrid>> : k \in 0..WeightGrid}

NormVals(S) == {Norm(q[1], q[2]) : q \in S}

WeightVectorInputs == UNION {[1..n -> NormVals(WeightVals)] : n \in 1..MaxAssets}

Apply_calculateHHI ==
    /\ fn = "none"
    /\ \E w \in WeightVectorInputs :
        /\ fn' = "calculateHHI"
        /\ args' = w
        /\ out' = calculateHHI(w)

\* weight vectors on the grid, the empty one included; they need not sum to 1
ScoreInputs == {<<>>} \cup WeightVectorInputs

Apply_calculateDiversificationScore ==
    /\ fn = "none"
    /\ \E w \in ScoreInputs :
        /\ fn' = "calculateDiversificationScore"
        /\ args' = w
        /\ out' = calculateDiversificationScore(w)

\* positive portfolio values, as simulatePortfolioValues produces them
ValueVals == {Q(1), Q(2), Q(3)}

ValueSeriesInputs == SeqsUpTo(ValueVals, MaxValues)

Apply_calculateDrawdownSeries ==
    /\ fn = "none"
    /\ \E v \in ValueSeriesInputs :
        /\ fn' = "calculateDrawdownSeries"
        /\ args' = v
        /\ out' = calculateDrawdownSeries(v)

Apply_calculateMaxDrawdown ==
    /\ fn = "none"
    /\ \E v \in ValueSeriesInputs :
        /\ fn' = "calculateMaxDrawdown"
        /\ args' = v
        /\ out' = calculateMaxDrawdown(v)

\* adjusted close prices, non-positive quotes included
LogPriceVals == {Q(-1), Zero, Q(1), Q(2), Q(3)}

PriceSeriesInputs == SeqsUpTo(LogPriceVals, MaxValues)

Apply_calculateLogReturns ==
    /\ fn = "none"
    /\ \E p \in PriceSeriesInputs :
        /\ fn' = "calculateLogReturns"
        /\ args' = p
        /\ out' = calculateLogReturns(p)

\* initialValue: the default 1.0 and an explicit one
InitialValueInputs == {One, Q(100)}

\* simulatePortfolioValues driven by the log returns of a price series
Apply_simulatePortfolioValues ==
    /\ fn = "none"
    /\ \E p \in PriceSeriesInputs, v \in InitialValueInputs :
        /\ fn' = "simulatePortfolioValues"
        /\ args' = [prices |-> p, initialValue |-> v]
        /\ out' = simulatePortfolioValues(calculateLogReturns(p), v)

\* daily return series of different lengths
CovSeriesInputs == SeqsUpTo(ReturnVals, MaxValues)

Apply_covariance ==
    /\ fn = "none"
    /\ \E r1 \in CovSeriesInputs, r2 \in CovSeriesInputs :
        /\ fn' = "covariance"
        /\ args' = [returns1 |-> r1, returns2 |-> r2]
        /\ out' = covariance(r1, r2)

\* returns maps of one or two tickers; a listed ticker may be missing from them
CovMatrixInputs ==
    UNION {{[i \in 1..Len(ts) |-> [ticker |-> ts[i], returns |-> rs[i]]] :
                rs \in [1..Len(ts) -> CovSeriesInputs]} : ts \in TickerOrders}

Apply_buildCovarianceMatrix ==
    /\ fn = "none"
    /\ \E rm \in CovMatrixInputs, ts \in TickerOrders :
        /\ fn' = "buildCovarianceMatrix"
        /\ args' = [returnsMatrix |-> rm, tickers |-> ts]
        /\ out' = buildCovarianceMatrix(rm, ts)

VolWeightVals == {Zero, <<1, 2>>, One}

VolWeightInputs == SeqsUpTo(VolWeightVals, MaxLen)

\* annualised covariances; the matrices need not be positive semi-definite
CovEntryVals == {Q(-1), Q(1)}

SquareMatrixInputs == UNION {[1..n -> [1..n -> CovEntryVals]] : n \in 0..MaxLen}

Apply_calculatePortfolioVolatility ==
    /\ fn = "none"
    /\ \E w \in VolWeightInputs, m \in SquareMatrixInputs :
        /\ fn' = "calculatePortfolioVolatility"
        /\ args' = [weights |-> w, covMatrix |-> m]
        /\ out' = calculatePortfolioVolatility(w, m)

AssetReturnVals == {<<-1, 10>>, Zero, <<1, 5>>}

AssetReturnInputs == SeqsUpTo(AssetReturnVals, MaxLen)

Apply_calculatePortfolioReturn ==
    /\ fn = "none"
    /\ \E w \in VolWeightInputs, r \in AssetReturnInputs :
        /\ fn' = "calculatePortfolioReturn"
        /\ args' = [weights |-> w, assetReturns |-> r]
        /\ out' = calculatePortfolioReturn(w, r)

\* any diversification score, also outside 0..100
DivScoreInputs == {RNeg(Infinity), Q(-50), Zero, Q(50), Q(100), Q(250), Infinity}

\* any annual volatility
VolInputs == {<<-1, 10>>, Zero, <<1, 10>>, <<3, 10>>, <<1, 2>>, Q(2), Infinity}

\* a max drawdown of either sign
DrawdownInputs == {RNeg(Infinity), Q(-1), <<-1, 2>>, <<-1, 4>>, Zero, <<1, 4>>, Q(1)}

\* a Sharpe ratio of any value or null
SharpeInputs ==
    {Null, Some(RNeg(Infinity)), Some(Q(-2)), Some(<<-1, 2>>), Some(Zero), Some(One),
     Some(<<3, 2>>), Some(Q(2)), Some(Q(5)), Some(Infinity)}

Apply_calculateHealthComponents ==
    /\ fn = "none"
    /\ \E d \in DivScoreInputs, v \in VolInputs, m \in DrawdownInputs, s \in SharpeInputs :
        /\ fn' = "calculateHealthComponents"
        /\ args' = [diversificationScore |-> d, annualVolatility |-> v,
                    maxDrawdown |-> m, sharpeRatio |-> s]
        /\ out' = calculateHealthComponents(d, v, m, s)

\* sub-scores within 0..100
SubScoreVals == {Zero, Q(5), <<145, 2>>, Q(80), Q(100)}

Apply_calculateHealthScore ==
    /\ fn = "none"
    /\ \E c \in [diversificationScore : SubScoreVals, volatilityScore : SubScoreVals,
                 drawdownScore : SubScoreVals, sharpeScore : SubScoreVals] :
        /\ fn' = "calculateHealthScore"
        /\ args' = c
        /\ out' = calculateHealthScore(c)

\* lines of a holdings text: blank, comment, no match, and holdings with no
\* weight, a percentage, a plain number above 1, a decimal, a zero, a lone "."
ParserLines ==
    { Line("blank", "", Null, FALSE),
      Line("comment", "", Null, FALSE),
      Line("invalid", "", Null, FALSE),
      Line("holding", "A", Null, FALSE),
      Line("holding", "a", Some(Q(30)), TRUE),
      Line("holding", "A", Some(Q(150)), FALSE),
      Line("holding", "B", Some(<<2, 5>>), FALSE),
      Line("holding", "B", Some(Zero), FALSE),
      Line("holding", "b", Some(NaN), FALSE) }

HoldingsTextInputs == SeqsUpTo(ParserLines, MaxLines)

Apply_parseHoldingsText ==
    /\ fn = "none"
    /\ \E text \in HoldingsTextInputs :
        /\ fn' = "parseHoldingsText"
        /\ args' = text
        /\ out' = parseHoldingsText(text)

Apply_generateDiagnosis ==
    /\ fn = "none"
    /\ \E o \in DiagnosisOutcomes :
        /\ fn' = "generateDiagnosis"
        /\ args' = o
        /\ out' = generateDiagnosis(o)

FnNext ==
    \/ Apply_alignPriceData
    \/ Apply_calculatePortfolioDailyReturns
    \/ Apply_calculateSharpeRatio
    \/ Apply_calculateHHI
    \/ Apply_calculateDiversificationScore
    \/ Apply_calculateDrawdownSeries
    \/ Apply_calculateMaxDrawdown
    \/ Apply_calculateLogReturns
    \/ Apply_simulatePortfolioValues
    \/ Apply_covariance
    \/ Apply_buildCovarianceMatrix
    \/ Apply_calculatePortfolioVolatility
    \/ Apply_calculatePortfolioReturn
    \/ Apply_calculateHealthComponents
    \/ Apply_calculateHealthScore
    \/ Apply_parseHoldingsText
    \/ Apply_generateDiagnosis

\* ------------------------------------------------------------------
\* Two requests in one process: the event loop runs one handler up to its
\* next await and may then resume the other
\* ------------------------------------------------------------------
\* everything POST and fetchAllHistoricalPrices allocate for one request
CurrentRequest ==
    [pc |-> pc, body |-> body, parsedHoldings |-> parsedHoldings, fetches |-> fetches,
     errors |-> errors, work |-> work, response |-> response, log |-> log]

IdleRequest ==
    [pc |-> "idle",
     body |-> [json |-> FALSE, hasText |-> FALSE, holdingsText |-> <<>>, portfolioValue |-> Null],
     parsedHoldings |-> <<>>, fetches |-> <<>>, errors |-> <<>>, work |-> NoWork,
     response |-> [status |-> 0], log |-> <<>>]

\* the same with the working data kept in one place for both requests
SwitchSharingWork ==
    /\ parked' = CurrentRequest
    /\ pc' = parked.pc
    /\ body' = parked.body
    /\ parsedHoldings' = parked.parsedHoldings
    /\ fetches' = parked.fetches
    /\ errors' = parked.errors
    /\ response' = parked.response
    /\ log' = parked.log
    /\ UNCHANGED work

\* the running handler is suspended at its await (or has returned) and the
\* other request is resumed: each has its own locals
Switch ==
    /\ parked' = CurrentRequest
    /\ pc' = parked.pc
    /\ body' = parked.body
    /\ parsedHoldings' = parked.parsedHoldings
    /\ fetches' = parked.fetches
    /\ errors' = parked.errors
    /\ work' = parked.work
    /\ response' = parked.response
    /\ log' = parked.log

\* the requests and the fetched data of the two-request runs
TwoTexts ==
    { <<Line("invalid", "", Null, FALSE), Line("comment", "", Null, FALSE)>>,
      <<Line("holding", "A", Some(Q(60)), TRUE), Line("holding", "B", Some(<<2, 5>>), FALSE)>> }

TwoFeeds == {Feed(1, MIN_DATA_POINTS, "flat"), Feed(2, MIN_DATA_POINTS + 1, "bump")}

NarrowInputs ==
    /\ body'.json
    /\ body'.hasText
    /\ body'.holdingsText \in TwoTexts
    /\ body'.portfolioValue = Null
    /\ \A i \in 1..Len(fetches') :
            fetches'[i].state # "pending" => fetches'[i].state = "ok" /\ fetches'[i].data \in TwoFeeds
    /\ pc' \in {"diagnosing", "done"} /\ work'.stage = "metrics" =>
            \A i \in 1..Len(work'.holdings) : work'.holdings[i].sector = "Technology"
    /\ (pc' = "done" /\ response'.status = 200) => response'.diagnosis = "fallback"

TwoStep == HNext /\ NarrowInputs

\* ------------------------------------------------------------------
\* app/page.tsx : Home, with the submit button of PortfolioInputCard and
\* the retry button of ErrorAlert
\* ------------------------------------------------------------------
MaxRequests == 3

PageInit ==
    [isLoading |-> FALSE, error |-> Null, analysis |-> Null, lastInput |-> Null,
     started |-> 0, pending |-> 0]

\* what the user typed in the textarea and in the portfolio value field
TextInputs == {"", " ", "A 60", "B"}

ValueInputs == {"", "0", "2500"}

\* holdingsText.trim()
Trim(t) == IF t = " " THEN "" ELSE t

\* parseFloat(portfolioValue) || 10000
ParseValue(v) == IF v = "2500" THEN 2500 ELSE DEFAULT_PORTFOLIO_VALUE

\* what the fetch of handleAnalyze ends with: a 200 with the analysis, an
\* error status with its JSON body, a body that is not JSON, a rejection
ServerReplies ==
    {[kind |-> "ok", data |-> d] : d \in {"analysis1", "analysis2"}}
    \cup {[kind |-> "error", error |-> "Holdings text is required", details |-> ""],
          [kind |-> "error", error |-> "Failed to fetch market data", details |-> "errors"],
          [kind |-> "error", error |-> "", details |-> ""],
          [kind |-> "notjson"],
          [kind |-> "rejected"]}

\* errorData.details ? `${errorData.error}: ${errorData.details}` : errorData.error
ThrownMessage(reply) ==
    IF reply.kind = "error"
    THEN (IF reply.details # "" THEN <<reply.error, ": ", reply.details>>
          ELSE IF reply.error # "" THEN <<reply.error>> ELSE <<>>)
    ELSE IF reply.kind = "notjson" THEN <<"Unexpected token">>
    ELSE <<"Failed to fetch">>

\* (err as Error).message || "An unexpected error occurred"
MessageOrDefault(m) == IF m = <<>> THEN <<"An unexpected error occurred">> ELSE m

\* the same with a button that is not disabled while loading
SubmitAlways(p, text) == Trim(text) # ""

\* disabled={isLoading || !holdingsText.trim()}
SubmitEnabled(p, text) == ~p.isLoading /\ Trim(text) # ""

\* {error && !isLoading && <ErrorAlert ... onRetry={handleRetry} />}
RetryShown(p) == p.error # Null /\ ~p.isLoading

\* {analysis && !isLoading && !error && ...}
DashboardShown(p) == p.analysis # Null /\ ~p.isLoading /\ p.error = Null

\* handleAnalyze up to its await
StartAnalyze(p, holdingsText, portfolioValue) ==
    [p EXCEPT !.isLoading = TRUE,
              !.error = Null,
              !.lastInput = Some([holdingsText |-> holdingsText, portfolioValue |-> portfolioValue]),
              !.started = @ + 1,
              !.pending = @ + 1]

\* handleSubmit of PortfolioInputCard
HandleSubmit ==
    /\ page.started < MaxRequests
    /\ \E text \in TextInputs, value \in ValueInputs :
        /\ SubmitEnabled(page, text)
        /\ page' = StartAnalyze(page, text, ParseValue(value))
    /\ UNCHANGED parked

\* handleRetry
HandleRetry ==
    /\ page.started < MaxRequests
    /\ RetryShown(page)
    /\ page.lastInput # Null
    /\ page' = StartAnalyze(page, page.lastInput[1].holdingsText, page.lastInput[1].portfolioValue)
    /\ UNCHANGED parked

\* the rest of handleAnalyze once the fetch has settled
FetchSettled ==
    /\ page.pending > 0
    /\ \E reply \in ServerReplies :
        IF reply.kind = "ok"
        THEN page' = [page EXCEPT !.analysis = Some(reply.data),
                                  !.isLoading = FALSE,
                                  !.pending = @ - 1]
        ELSE page' = [page EXCEPT !.error = Some(MessageOrDefault(ThrownMessage(reply))),
                                  !.analysis = Null,
                                  !.isLoading = FALSE,
                                  !.pending = @ - 1]
    /\ UNCHANGED parked

PageNext == HandleSubmit \/ HandleRetry \/ FetchSettled

OInit == parked = IdleRequest /\ page = PageInit

vars == <<pc, body, parsedHoldings, fetches, errors, work, response, log, fn, args, out,
          parked, page>>

\* the request handler
Init == HInit /\ FnInit /\ OInit

Next == HNext /\ UNCHANGED fvars /\ UNCHANGED ovars

Spec == Init /\ [][Next]_vars

\* the pure functions, applied to bounded inputs
InitFn == HInit /\ FnInit /\ OInit

NextFn == FnNext /\ UNCHANGED hvars /\ UNCHANGED ovars

SpecFn == InitFn /\ [][NextFn]_vars

\* two requests interleaved at their awaits
InitTwo == HInit /\ FnInit /\ OInit

NextTwo ==
    \/ TwoStep /\ UNCHANGED <<fvars, parked, page>>
    \/ Switch /\ UNCHANGED <<fvars, page>>

SpecTwo == InitTwo /\ [][NextTwo]_vars

\* the page
InitPage == HInit /\ FnInit /\ OInit

NextPage == PageNext /\ UNCHANGED hvars /\ UNCHANGED fvars

SpecPage == InitPage /\ [][NextPage]_vars

\* ------------------------------------------------------------------
\* C1: for input series without duplicate dates alignPriceData returns
\* exactly the dates present in every series, ascending, and for every
\* ticker (in input order) a price array of the same length whose k-th
\* element is that ticker's price on the k-th date; no ticker or no common
\* date gives an empty date list.
\* ------------------------------------------------------------------
DatesOf(data) == {data[i].date : i \in 1..Len(data)}

CommonDateSet(pm) ==
    IF Len(pm) = 0 THEN {}
    ELSE {d \in DatesOf(pm[1].data) : \A i \in 1..Len(pm) : d \in DatesOf(pm[i].data)}

C1_AlignIsSortedIntersection ==
    fn = "alignPriceData" =>
        /\ Range(out.dates) = CommonDateSet(args)
        /\ \A k \in 1..(Len(out.dates) - 1) : out.dates[k] < out.dates[k + 1]
        /\ Len(out.alignedPrices) = Len(args)
        /\ \A i \in 1..Len(args) :
            /\ out.alignedPrices[i].ticker = args[i].ticker
            /\ Len(out.alignedPrices[i].prices) = Len(out.dates)
            /\ \A k \in 1..Len(out.dates) :
                \E p \in 1..Len(args[i].data) :
                    /\ args[i].data[p].date = out.dates[k]
                    /\ args[i].data[p].adjClose = out.alignedPrices[i].prices[k]
        /\ (Len(args) = 0 \/ CommonDateSet(args) = {}) => out.dates = <<>>

C1_Witness ==
    /\ fn = "alignPriceData"
    /\ Len(args) = 2
    /\ Len(out.dates) = 2
    /\ Len(args[1].data) = 2
    /\ args[1].data[1].date > args[1].data[2].date
    /\ args[2].data[1].date < args[2].data[2].date
    /\ out.alignedPrices[1].prices # out.alignedPrices[2].prices

\* ------------------------------------------------------------------
\* C2: whenever alignment yields fewer than 20 common trading days the
\* request ends with the 400 response "Insufficient historical data" whose
\* details name the days found and the minimum of 20, and neither the
\* metrics are computed nor the diagnosis is generated.
\* ------------------------------------------------------------------
Aligned == work.stage \in {"aligned", "metrics"}

C2_FewDaysIsError ==
    (Aligned /\ Len(work.dates) < 20) =>
        /\ pc = "done"
        /\ response.status = 400
        /\ response.error = "Insufficient historical data"
        /\ response.details[2] = Len(work.dates)
        /\ response.details[4] = 20
        /\ work.stage = "aligned"
        /\ "metrics" \notin Range(log)
        /\ "diagnosis" \notin Range(log)

C2_Witness ==
    /\ pc = "done"
    /\ work.stage = "aligned"
    /\ Len(work.dates) = 19
    /\ Len(work.alignedPrices) = 2
    /\ response.status = 400

\* ------------------------------------------------------------------
\* C3: in every successful response the arrays dates, portfolioValues and
\* drawdowns of the time series have the same length, the number of
\* aligned price dates minus one.
\* ------------------------------------------------------------------
Success == pc = "done" /\ response.status = 200

C3_TimeseriesSameLength ==
    Success =>
        /\ Len(response.timeseries.dates) = Len(work.dates) - 1
        /\ Len(response.timeseries.portfolioValues) = Len(work.dates) - 1
        /\ Len(response.timeseries.drawdowns) = Len(work.dates) - 1

\* ------------------------------------------------------------------
\* C4: for every ticker of the pipeline the return series has the length
\* of its aligned prices minus one, and its element i is the return of the
\* move from aligned date i to aligned date i + 1.
\* ------------------------------------------------------------------
C4_ReturnsIndexedByDate ==
    work.stage = "metrics" =>
        \A t \in 1..Len(work.validTickers) :
            LET prices == work.alignedPrices[t].prices
                returns == work.returnsMatrix[t].returns
            IN /\ Len(returns) = Len(prices) - 1
               /\ \A i \in 1..Len(returns) :
                    /\ RGt(prices[i], Zero)
                    /\ RGt(prices[i + 1], Zero)
                    /\ returns[i] = Ln(RDiv(prices[i + 1], prices[i]))

\* ------------------------------------------------------------------
\* C5 as claimed: the result of calculatePortfolioDailyReturns has the
\* minimum length over the listed tickers' series, and is empty whenever a
\* listed ticker has no series in the returns map.
\* ------------------------------------------------------------------
Listed(a) == Range(a.tickers)

HasSeries(a, t) == MapHas(a.returnsMatrix, t)

SeriesLengths(a) == {Len(MapGet(a.returnsMatrix, t).returns) : t \in {u \in Listed(a) : HasSeries(a, u)}}

SetMin(S) == CHOOSE x \in S : \A y \in S : x <= y

C5_EmptyWhenAnySeriesMissing ==
    fn = "calculatePortfolioDailyReturns" =>
        /\ (\E t \in Listed(args) : ~HasSeries(args, t)) => out = <<>>
        /\ (Listed(args) # {} /\ \A t \in Listed(args) : HasSeries(args, t))
                => Len(out) = SetMin(SeriesLengths(args))

\* C5 amended: the length of the result is the minimum length over the
\* series of those listed tickers that have one in the returns map, and the
\* result is empty when no listed ticker has a series; a listed ticker
\* without a series is left out of the minimum and adds nothing to the sums.
C5_MinOverSeriesPresent ==
    fn = "calculatePortfolioDailyReturns" =>
        /\ SeriesLengths(args) = {} => out = <<>>
        /\ SeriesLengths(args) # {} => Len(out) = SetMin(SeriesLengths(args))

C5_Witness ==
    /\ fn = "calculatePortfolioDailyReturns"
    /\ \E t \in Listed(args) : ~HasSeries(args, t)
    /\ \E t \in Listed(args) : HasSeries(args, t)
    /\ Len(out) = 2
    /\ out[2] # Zero

\* ------------------------------------------------------------------
\* C6: in every analysis that reaches the metrics the weights handed to
\* the numeric functions are non-negative and sum to 1 within 1e-3, also
\* when requested tickers were dropped for lack of price history.
\* ------------------------------------------------------------------
C6_WeightsSumToOne ==
    work.stage = "metrics" =>
        /\ \A i \in 1..Len(work.weights) : RGe(work.weights[i], Zero)
        /\ RLe(RAbs(RSub(RSum(work.weights), One)), <<1, 1000>>)

\* ------------------------------------------------------------------
\* C7: calculateSharpeRatio returns null exactly when the volatility is 0,
\* whatever the return (0 included); for a non-zero volatility it returns
\* (return - riskFreeRate) / volatility, the rate being 0.04 when left out.
\* ------------------------------------------------------------------
RateOf(a) == IF a.riskFreeRate = Null THEN <<4, 100>> ELSE a.riskFreeRate[1]

C7_SharpeNullIffZeroVol ==
    fn = "calculateSharpeRatio" =>
        /\ (out = Null) <=> (SSquare(args.portfolioVol) = Zero)
        /\ out # Null =>
            SEq(SMul(out[1], args.portfolioVol),
                FromQ(RSub(args.portfolioReturn, Norm(RateOf(args)[1], RateOf(args)[2]))))

C7_Witness ==
    /\ fn = "calculateSharpeRatio"
    /\ args.portfolioReturn = Zero
    /\ args.portfolioVol = Sqrt(Zero)
    /\ args.riskFreeRate = Null
    /\ out = Null

\* ------------------------------------------------------------------
\* C8 as claimed: when the portfolio volatility is zero the VaR reported
\* is null/undefined and not a numeric amount, as the Sharpe ratio is.
\* ------------------------------------------------------------------
\* JSON.stringify writes NaN and the infinities as null
Reported(v) == IF SIsNaN(v) \/ ~IsFinite(v.c) \/ ~IsFinite(v.r) THEN Null ELSE Some(v)

ZeroVolSuccess == Success /\ SIsZero(response.portfolio.annualVolatility)

C8_VaRNullAtZeroVol ==
    ZeroVolSuccess => Reported(response.portfolio.var95) = Null

\* C8 amended: when the portfolio volatility is zero (and portfolioValue is
\* a number or left out) the VaR reported is the numeric amount 0, not
\* null/undefined; only the Sharpe ratio is null.
C8_VaRZeroAtZeroVol ==
    ZeroVolSuccess =>
        /\ Reported(response.portfolio.var95) # Null
        /\ SSquare(response.portfolio.var95) = Zero
        /\ response.portfolio.sharpeRatio = Null

C8_Witness ==
    /\ ZeroVolSuccess
    /\ body.portfolioValue = Some(Q(2500))
    /\ response.portfolio.numHoldings = 2

\* ------------------------------------------------------------------
\* C9: calculateVaR95 returns a non-negative amount for every input the
\* pipeline can hand it (a volatility of calculatePortfolioVolatility, a
\* portfolioValue of the request body, horizonDays = 1), equal to
\* 1.645 x (annualVol / sqrt(252)) x sqrt(horizonDays) x portfolioValue.
\* ------------------------------------------------------------------
C9_VaRNonNegative ==
    work.stage = "metrics" =>
        LET v == work.portfolio.var95
            value == PortfolioValueOf(body)
            perUnit == SDiv(v, FromQ(RMul(<<1645, 1000>>, value)))
        IN /\ SSign(v) >= 0
           /\ value = Zero => SSquare(v) = Zero
           /\ value # Zero => RMul(SSquare(perUnit), Q(252)) = SSquare(work.portfolioVol)

\* ------------------------------------------------------------------
\* C10: for n non-negative weights summing to 1 calculateHHI returns a
\* value between 1/n and 1, equal to 1/n only when all weights are equal
\* and equal to 1 only when one asset carries the weight 1.
\* ------------------------------------------------------------------
SumsToOne(w) == RSum(w) = One /\ \A i \in 1..Len(w) : RGe(w[i], Zero)

C10_HHIRange ==
    (fn = "calculateHHI" /\ SumsToOne(args)) =>
        /\ RLe(<<1, Len(args)>>, out)
        /\ RLe(out, One)
        /\ out = <<1, Len(args)>> => \A i, j \in 1..Len(args) : args[i] = args[j]
        /\ out = One => \E i \in 1..Len(args) : args[i] = One

C10_Witness ==
    /\ fn = "calculateHHI"
    /\ Len(args) = 3
    /\ \A i \in 1..3 : args[i] = <<1, 3>>
    /\ out = <<1, 3>>

\* ------------------------------------------------------------------
\* C11: calculateDiversificationScore returns 100 for n > 1 equal weights
\* 1/n, 0 for a vector of length 0 or 1 and for a fully concentrated vector
\* (one weight 1, the others 0), and a value within [0, 100] for every
\* other weight vector.
\* ------------------------------------------------------------------
EqualWeighted(w) == Len(w) > 1 /\ \A i \in 1..Len(w) : w[i] = Norm(1, Len(w))

Concentrated(w) ==
    \E i \in 1..Len(w) : w[i] = One /\ \A j \in 1..Len(w) : j # i => w[j] = Zero

C11_DiversificationScore ==
    fn = "calculateDiversificationScore" =>
        /\ Len(args) <= 1 => out = Zero
        /\ EqualWeighted(args) => out = Q(100)
        /\ Concentrated(args) => out = Zero
        /\ RGe(out, Zero) /\ RLe(out, Q(100))

C11_Witness ==
    /\ fn = "calculateDiversificationScore"
    /\ Len(args) = 3
    /\ EqualWeighted(args)
    /\ out = Q(100)

\* ------------------------------------------------------------------
\* C12 (as stated): calculateDrawdownSeries returns a series of the same
\* length whose every element is <= 0, and an element is 0 at and only at
\* the positions where the value sets a new running maximum (the first
\* position, or a value above every earlier one).
\* ------------------------------------------------------------------
SetsNewMax(values, k) == \A j \in 1..(k - 1) : RGt(values[k], values[j])

AtRunningMax(values, k) == \A j \in 1..(k - 1) : RGe(values[k], values[j])

C12_ZeroOnlyAtNewMax ==
    fn = "calculateDrawdownSeries" =>
        /\ Len(out) = Len(args)
        /\ \A k \in 1..Len(out) :
            /\ RLe(out[k], Zero)
            /\ out[k] = Zero <=> SetsNewMax(args, k)

\* C12 (amended): same length, every element <= 0, and an element is 0 at
\* and only at the positions where the value equals the running maximum,
\* whether it sets it or only ties with it.
C12_ZeroIffAtRunningMax ==
    fn = "calculateDrawdownSeries" =>
        /\ Len(out) = Len(args)
        /\ \A k \in 1..Len(out) :
            /\ RLe(out[k], Zero)
            /\ out[k] = Zero <=> AtRunningMax(args, k)

C12_Witness ==
    /\ fn = "calculateDrawdownSeries"
    /\ Len(args) = 3
    /\ RLt(out[2], Zero)
    /\ out[3] = Zero
    /\ args[3] = args[1]

\* ------------------------------------------------------------------
\* C13: calculateMaxDrawdown(values) is the minimum element of
\* calculateDrawdownSeries(values) for a non-empty series and 0 for an
\* empty one, and computing it again on the same series gives the same.
\* ------------------------------------------------------------------
C13_MaxDrawdownIsMinimum ==
    fn = "calculateMaxDrawdown" =>
        /\ args = <<>> => out = Zero
        /\ args # <<>> =>
            /\ out \in Range(calculateDrawdownSeries(args))
            /\ \A k \in 1..Len(args) : RLe(out, calculateDrawdownSeries(args)[k])
        /\ calculateMaxDrawdown(args) = out

C13_Witness ==
    /\ fn = "calculateMaxDrawdown"
    /\ Len(args) = 3
    /\ RLt(out, Zero)
    /\ calculateDrawdownSeries(args)[2] = out
    /\ calculateDrawdownSeries(args)[3] # out

\* ------------------------------------------------------------------
\* C14 (as stated): for every strictly increasing positive price series,
\* simulatePortfolioValues applied to its calculateLogReturns yields a value
\* path of length prices.length that starts at the initial value, is
\* strictly increasing, and whose k-th value is initial x price[k] / price[0].
\* ------------------------------------------------------------------
StrictlyIncreasingPositive(p) ==
    /\ \A k \in 1..Len(p) : RGt(p[k], Zero)
    /\ \A k \in 1..(Len(p) - 1) : RLt(p[k], p[k + 1])

PathFollowsPrices(prices, initialValue, path) ==
    /\ Len(path) = Len(prices)
    /\ path[1] = initialValue
    /\ \A k \in 1..(Len(path) - 1) : RLt(path[k], path[k + 1])
    /\ \A k \in 1..Len(prices) :
        k <= Len(path) => path[k] = RMul(initialValue, RDiv(prices[k], prices[1]))

C14_RoundTripEverySeries ==
    (fn = "simulatePortfolioValues" /\ StrictlyIncreasingPositive(args.prices)) =>
        PathFollowsPrices(args.prices, args.initialValue, out)

\* C14 (amended): the same for every non-empty strictly increasing positive
\* price series and a positive initial value; for the empty series the path
\* is the initial value alone.
C14_RoundTripNonEmpty ==
    (fn = "simulatePortfolioValues" /\ StrictlyIncreasingPositive(args.prices)) =>
        IF Len(args.prices) = 0 THEN out = <<args.initialValue>>
        ELSE PathFollowsPrices(args.prices, args.initialValue, out)

C14_Witness ==
    /\ fn = "simulatePortfolioValues"
    /\ StrictlyIncreasingPositive(args.prices)
    /\ Len(args.prices) = 3
    /\ args.initialValue = Q(100)
    /\ out[3] = Q(300)

\* ------------------------------------------------------------------
\* C20: calculateLogReturns returns an empty series for fewer than 2
\* prices; otherwise it emits, in order, one return ln(p[i] / p[i-1]) per
\* adjacent pair with both prices > 0 and nothing for a pair with a price
\* <= 0, so its length is the number of all-positive adjacent pairs.
\* ------------------------------------------------------------------
PositivePairs(prices) ==
    {i \in 2..Len(prices) : RGt(prices[i - 1], Zero) /\ RGt(prices[i], Zero)}

\* the position in the output of the return of the pair ending at i
RankOf(prices, i) == Cardinality({k \in PositivePairs(prices) : k <= i})

C15_CovarianceMatrixSymmetric ==
    fn = "buildCovarianceMatrix" =>
        /\ Len(out) = Len(args.tickers)
        /\ \A i \in 1..Len(out) :
            /\ Len(out[i]) = Len(args.tickers)
            /\ \A j \in 1..Len(out) : out[i][j] = out[j][i]

C15_Witness ==
    /\ fn = "buildCovarianceMatrix"
    /\ Len(args.tickers) = 2
    /\ Len(args.returnsMatrix) = 2
    /\ Len(args.returnsMatrix[1].returns) = 3
    /\ Len(args.returnsMatrix[2].returns) = 2
    /\ out[1][2] # Zero
    /\ out[1][2] # out[1][1]

\* a listed ticker without a series: its row and column are 0
C15_WitnessMissing ==
    /\ fn = "buildCovarianceMatrix"
    /\ Len(args.tickers) = 2
    /\ Len(args.returnsMatrix) = 1
    /\ \E i \in 1..2 : out[i][i] # Zero

\* ------------------------------------------------------------------
\* C16: covariance(a, b) uses only the leading n = min(len a, len b)
\* elements of both series for the means and for the sum of products,
\* divides by n - 1, and returns 0 whenever n is below 2.
\* ------------------------------------------------------------------
Prefix(s, n) == [i \in 1..n |-> s[i]]

PrefixMean(s, n) == RDiv(RSum(Prefix(s, n)), Q(n))

C16_CovarianceOverPrefix ==
    fn = "covariance" =>
        LET n == IF Len(args.returns1) < Len(args.returns2)
                 THEN Len(args.returns1) ELSE Len(args.returns2)
        IN IF n < 2 THEN out = Zero
           ELSE RMul(out, Q(n - 1)) =
                    RSum([i \in 1..n |->
                            RMul(RSub(args.returns1[i], PrefixMean(args.returns1, n)),
                                 RSub(args.returns2[i], PrefixMean(args.returns2, n)))])

C16_Witness ==
    /\ fn = "covariance"
    /\ Len(args.returns1) = 3
    /\ Len(args.returns2) = 2
    /\ args.returns1[3] # Zero
    /\ out # Zero

\* ------------------------------------------------------------------
\* C17: calculatePortfolioVolatility sums weights[i] x weights[j] x
\* cov[i][j] over all pairs (i, j), replaces a negative sum by 0 before the
\* square root, and so returns a non-negative number, never NaN, for every
\* weight vector and square matrix of matching size, positive
\* semi-definite or not.
\* ------------------------------------------------------------------
QuadraticForm(w, m) ==
    RSum([i \in 1..Len(w) |-> RSum([j \in 1..Len(w) |-> RMul(RMul(w[i], w[j]), m[i][j])])])

C17_VolatilityClamped ==
    (fn = "calculatePortfolioVolatility" /\ Len(args.weights) = Len(args.covMatrix)) =>
        /\ ~SIsNaN(out)
        /\ SSign(out) >= 0
        /\ SSquare(out) = RMax(Zero, QuadraticForm(args.weights, args.covMatrix))

C17_Witness ==
    /\ fn = "calculatePortfolioVolatility"
    /\ Len(args.weights) = 2
    /\ Len(args.covMatrix) = 2
    /\ RLt(QuadraticForm(args.weights, args.covMatrix), Zero)
    /\ SIsZero(out)

\* ------------------------------------------------------------------
\* C18: calculatePortfolioReturn returns the sum over i of weights[i] x
\* assetReturns[i] when the two vectors have equal length, and 0 when
\* their lengths differ.
\* ------------------------------------------------------------------
RECURSIVE DotProduct(_, _, _)
DotProduct(w, r, k) ==
    IF k = 0 THEN Zero ELSE RAdd(DotProduct(w, r, k - 1), RMul(w[k], r[k]))

C18_PortfolioReturn ==
    fn = "calculatePortfolioReturn" =>
        IF Len(args.weights) = Len(args.assetReturns)
        THEN out = DotProduct(args.weights, args.assetReturns, Len(args.weights))
        ELSE out = Zero

C18_Witness ==
    /\ fn = "calculatePortfolioReturn"
    /\ Len(args.weights) = 2
    /\ Len(args.assetReturns) = 2
    /\ args.weights[1] # Zero /\ args.weights[2] # Zero
    /\ args.assetReturns[1] # args.assetReturns[2]
    /\ out # Zero

\* the mismatch case of C18
C18_WitnessMismatch ==
    /\ fn = "calculatePortfolioReturn"
    /\ Len(args.weights) = 2
    /\ Len(args.assetReturns) = 1
    /\ args.weights[1] # Zero /\ args.assetReturns[1] # Zero
    /\ out = Zero

\* ------------------------------------------------------------------
\* C19: a length mismatch between the weight vector and the asset-return
\* vector in calculatePortfolioReturn is signaled to the caller: the outcome
\* of a mismatch differs from the result of every valid computation.
\* ------------------------------------------------------------------
ValidReturnResults ==
    {calculatePortfolioReturn(w, r) :
        <<w, r>> \in {p \in VolWeightInputs \X AssetReturnInputs : Len(p[1]) = Len(p[2])}}

C19_MismatchDistinguishable ==
    (fn = "calculatePortfolioReturn" /\ Len(args.weights) # Len(args.assetReturns)) =>
        out \notin ValidReturnResults

\* ------------------------------------------------------------------
\* C21: calculateHealthComponents returns four sub-scores that each lie in
\* [0, 100], for any diversification score (also outside 0..100), any
\* volatility, a max drawdown of either sign and a Sharpe ratio of any
\* value or null.
\* ------------------------------------------------------------------
InScoreRange(x) == RGe(x, Zero) /\ RLe(x, Q(100))

C21_SubScoresInRange ==
    fn = "calculateHealthComponents" =>
        /\ InScoreRange(out.diversificationScore)
        /\ InScoreRange(out.volatilityScore)
        /\ InScoreRange(out.drawdownScore)
        /\ InScoreRange(out.sharpeScore)

C21_Witness ==
    /\ fn = "calculateHealthComponents"
    /\ args.diversificationScore = Q(250)
    /\ args.annualVolatility = <<3, 10>>
    /\ args.maxDrawdown = <<1, 4>>
    /\ args.sharpeRatio = Some(Q(-2))
    /\ out = [diversificationScore |-> Q(100), volatilityScore |-> Q(50),
              drawdownScore |-> Q(50), sharpeScore |-> Zero]

ExactScore(c) ==
    RDiv(RAdd(RAdd(RMul(Q(3), c.diversificationScore), RMul(Q(2), c.volatilityScore)),
              RAdd(RMul(Q(2), c.drawdownScore), RMul(Q(3), c.sharpeScore))),
         Q(10))

C23_HealthScoreRounded ==
    fn = "calculateHealthScore" =>
        /\ out \in 0..100
        /\ RLe(RAbs(RSub(Q(out), ExactScore(args))), <<1, 2>>)

C23_Witness ==
    /\ fn = "calculateHealthScore"
    /\ args = [diversificationScore |-> Q(5), volatilityScore |-> Q(100),
               drawdownScore |-> Zero, sharpeScore |-> <<145, 2>>]
    /\ out = 43

\* ------------------------------------------------------------------
\* C25: whenever parseHoldingsText returns rather than throws, the list is
\* non-empty, holds each ticker at most once (the weights of a repeated
\* ticker merged), every weight is >= 0 and the weights sum to 1.0 within
\* 1e-3.
\* ------------------------------------------------------------------
C25_ParsedHoldingsNormalized ==
    (fn = "parseHoldingsText" /\ out.ok) =>
        /\ Len(out.holdings) > 0
        /\ \A i, j \in 1..Len(out.holdings) :
            i # j => out.holdings[i].ticker # out.holdings[j].ticker
        /\ \A i \in 1..Len(out.holdings) : RGe(out.holdings[i].weight, Zero)
        /\ RLe(RAbs(RSub(RSum(WeightsOf(out.holdings)), One)), <<1, 1000>>)

C25_Witness ==
    /\ fn = "parseHoldingsText"
    /\ out.ok
    /\ Len(args) = 3
    /\ args[1].ticker = "a" /\ args[2].ticker = "B" /\ args[3].ticker = "A"
    /\ args[3].num # Null
    /\ Len(out.holdings) = 2
    /\ out.holdings[1] = [ticker |-> "A", weight |-> <<13, 17>>]

\* ------------------------------------------------------------------
\* C26: generateDiagnosis always completes with a non-empty diagnosis
\* string: the locally generated fallback when no API key is configured,
\* when the LLM call throws and when the LLM response has no content.
\* ------------------------------------------------------------------
C26_DiagnosisNeverEmpty ==
    fn = "generateDiagnosis" =>
        /\ out # ""
        /\ args \in {"nokey", "throw", "empty"} => out = "fallback"
        /\ args = "content" => out = "llm"

C26_Witness ==
    /\ fn = "generateDiagnosis"
    /\ args = "empty"
    /\ out = "fallback"

\* ---- C27 ----
\* the positions of the tickers whose fetch succeeded with enough points
OkIndices(fs) == {i \in 1..Len(fs) : fs[i].state = "ok"}

\* the position in the returned map of the ticker at input position i
RankAmongOk(fs, i) == Cardinality({j \in OkIndices(fs) : j <= i})

\* C27: the map returned by fetchAllHistoricalPrices holds exactly the input
\* tickers whose fetch succeeded with at least 20 data points, in input
\* order, whatever the order in which the fetches completed; the call throws
\* (the 500 "Failed to fetch market data" response) only when no ticker
\* qualifies
C27_PricesMapInInputOrder ==
    /\ pc = "fetchingMetadata" =>
        /\ Len(work.pricesMap) = Cardinality(OkIndices(fetches))
        /\ \A i \in OkIndices(fetches) :
            /\ work.pricesMap[RankAmongOk(fetches, i)].ticker = parsedHoldings[i].ticker
            /\ work.pricesMap[RankAmongOk(fetches, i)].data = fetches[i].data
            /\ Len(fetches[i].data) >= MIN_DATA_POINTS
    /\ (pc = "done" /\ response = ErrorResponse(500, "Failed to fetch market data", "errors")) =>
        /\ fetches # <<>>
        /\ OkIndices(fetches) = {}
    /\ pc \in {"fetchingMetadata", "diagnosing"} => OkIndices(fetches) # {}

\* two tickers qualify and the second of the input completed first
C27_Witness ==
    /\ pc = "fetchingMetadata"
    /\ Len(fetches) = 2
    /\ fetches[1].state = "ok"
    /\ fetches[2].state = "ok"
    /\ fetches[2].order < fetches[1].order
    /\ MapKeys(work.pricesMap) = TickersOf(parsedHoldings)

\* ---- C28 ----
StepOrder == <<"parse", "fetchPrices", "fetchMetadata", "align", "metrics", "diagnosis">>

IsPrefixOf(s, t) == Len(s) <= Len(t) /\ s = SubSeq(t, 1, Len(s))

\* the holdings text of the request is missing or fails to parse
TextMissingOrUnparsed(b) ==
    \/ ~b.json
    \/ ~b.hasText
    \/ b.holdingsText = <<>>
    \/ ~parseHoldingsText(b.holdingsText).ok

\* C28: the calls of the handler are made in the fixed order parse, fetch
\* prices, fetch metadata, align, compute metrics, generate diagnosis; a
\* request whose holdings text is missing or fails to parse makes no price,
\* metadata or diagnosis call; the diagnosis call is made only after every
\* metric has been computed and only on the path that ends in the success
\* response
C28_FixedStepOrder ==
    /\ IsPrefixOf(log, StepOrder)
    /\ (pc # "idle" /\ TextMissingOrUnparsed(body)) =>
        /\ pc = "done"
        /\ Range(log) \cap {"fetchPrices", "fetchMetadata", "diagnosis"} = {}
    /\ "diagnosis" \in Range(log) =>
        /\ work.stage = "metrics"
        /\ pc \in {"diagnosing", "done"}
        /\ pc = "done" => response.status = 200
    /\ (pc = "done" /\ response.status = 200) => log = StepOrder

C28_Witness ==
    /\ pc = "done"
    /\ response.status = 200
    /\ log = StepOrder
    /\ work.stage = "metrics"

\* ---- C29 ----
\* C29: the handler never answers 400 "Could not fetch data for any of the
\* provided tickers"; when every fetch ended without usable history the
\* answer is 500 "Failed to fetch market data"
C29_EmptyValidTickersUnreachable ==
    /\ response # ErrorResponse(400, "Could not fetch data for any of the provided tickers", "")
    /\ (pc = "done" /\ fetches # <<>> /\ OkIndices(fetches) = {}) =>
        response = ErrorResponse(500, "Failed to fetch market data", "errors")

C29_Witness ==
    /\ pc = "done"
    /\ Len(fetches) = 2
    /\ OkIndices(fetches) = {}
    /\ response = ErrorResponse(500, "Failed to fetch market data", "errors")

\* ---- C24 ----
\* the success response built from the metrics
SoloSuccess(w, o) ==
    [status |-> 200, holdings |-> w.holdings, portfolio |-> w.portfolio,
     sectors |-> w.sectors, timeseries |-> w.timeseries, diagnosis |-> generateDiagnosis(o)]

SoloAligned(b, al, validTickers, adjustedWeights, metadata, o) ==
    IF Len(al.dates) < MIN_COMMON_DAYS
    THEN ErrorResponse(400, "Insufficient historical data",
            <<"Only", Len(al.dates), "common trading days found. Need at least", 20>>)
    ELSE SoloSuccess(ComputeMetrics(al, validTickers, adjustedWeights, metadata,
                                    PortfolioValueOf(b)), o)

SoloPrices(b, holdings, pricesMap, metadata, o) ==
    IF NoResults(pricesMap)
    THEN ErrorResponse(500, "Failed to fetch market data", "errors")
    ELSE SoloAligned(b, alignPriceData(pricesMap), MapKeys(pricesMap),
                     AdjustWeights(holdings, MapKeys(pricesMap)), metadata, o)

SoloParsed(b, parsed, fs, metadata, o) ==
    IF ~parsed.ok THEN ErrorResponse(400, "Failed to parse holdings", "message")
    ELSE IF Len(parsed.holdings) = 0 THEN ErrorResponse(400, "No valid holdings found", "")
    ELSE SoloPrices(b, parsed.holdings,
                    SettledResults(fs, TickersOf(parsed.holdings), 1), metadata, o)

\* the response of one request run alone on body b, the settled fetches fs,
\* the metadata and the diagnosis outcome o
SoloResponse(b, fs, metadata, o) ==
    IF ~b.json THEN ErrorResponse(500, "An unexpected error occurred", "json")
    ELSE IF ~b.hasText \/ b.holdingsText = <<>>
    THEN ErrorResponse(400, "Holdings text is required", "")
    ELSE SoloParsed(b, parseHoldingsText(b.holdingsText), fs, metadata, o)

\* request r works on its own data and answers as it would alone
Independent(r) ==
    /\ r.pc = "fetchingMetadata" =>
        r.work.pricesMap = SettledResults(r.fetches, TickersOf(r.parsedHoldings), 1)
    /\ r.pc = "done" =>
        \E metadata \in [1..Cardinality(OkIndices(r.fetches)) -> Sectors], o \in DiagnosisOutcomes :
            r.response = SoloResponse(r.body, r.fetches, metadata, o)

\* C24: two requests interleaved at their awaits share no mutable state:
\* each answers with the response it would produce alone on its own body
\* and its own fetched data
C24_RequestsIndependent == Independent(CurrentRequest) /\ Independent(parked)

\* both requests are answered, with the same body and different fetched
\* data, one with the analysis and the other with too few common days
C24_Witness ==
    /\ pc = "done"
    /\ parked.pc = "done"
    /\ body = parked.body
    /\ response.status = 200
    /\ parked.response.status = 400
    /\ parked.fetches # <<>>
    /\ OkIndices(parked.fetches) = {1, 2}

\* ---- C30 ----
\* C30: whenever isLoading is false and a request has completed, exactly
\* one of error and analysis is non-null, and the error alert and the
\* results dashboard are not both shown
C30_ErrorXorAnalysis ==
    (~page.isLoading /\ page.started - page.pending >= 1) =>
        /\ (page.error = Null) # (page.analysis = Null)
        /\ ~(RetryShown(page) /\ DashboardShown(page))
        /\ RetryShown(page) \/ DashboardShown(page)

\* a failure after a success: the earlier analysis is gone
C30_Witness ==
    /\ ~page.isLoading
    /\ page.started = 2
    /\ page.pending = 0
    /\ page.error = Some(<<"An unexpected error occurred">>)
    /\ page.analysis = Null

====
